---- MODULE Spec2Model ----
(***************************************************************************)
(* A model of lab.py, the plain-text lab notebook: the entry file codec    *)
(* (entry.to_file / entry.parse_sections), the entry constructor, keyword  *)
(* matching, get_entries and command_new.                                  *)
(*                                                                         *)
(* A Python str is a sequence of tokens.  A token is one character ("x",   *)
(* " ", "\n", "\r", ",", "-", "=", "_") or a fixed run of characters that  *)
(* the code only ever handles as a whole: a section title ("Log Entry"),   *)
(* the parser's sentinel, a date ("170101"), a long date ("January 01,     *)
(* 2017"), the extension ".md", and "----", four consecutive dashes.  A    *)
(* single "-" only ever follows a "----" (in an underline), so a line      *)
(* starts with four dashes exactly when its first token is "----".         *)
(***************************************************************************)
EXTENDS Integers, Sequences, FiniteSets, TLC

NL == "\n"
CR == "\r"
SP == " "
DASH4 == "----"

\* the characters str.strip() removes
Whitespace == {SP, NL, CR, "\t"}

\* the Python value None, and a str given for an optional argument
None == [none |-> TRUE, val |-> <<>>]
Some(s) == [none |-> FALSE, val |-> s]

\* str.startswith
StartsWith(s, p) == Len(s) >= Len(p) /\ SubSeq(s, 1, Len(p)) = p

\* str.endswith
EndsWith(s, p) == Len(s) >= Len(p) /\ SubSeq(s, Len(s) - Len(p) + 1, Len(s)) = p

\* str.lstrip(), in the place of str.strip()
LStrip(s) ==
  LET idx == {i \in 1..Len(s) : s[i] \notin Whitespace}
  IN  IF idx = {} THEN <<>>
      ELSE SubSeq(s, CHOOSE i \in idx : \A j \in idx : i <= j, Len(s))

\* str.strip()
Strip(s) ==
  LET idx == {i \in 1..Len(s) : s[i] \notin Whitespace}
  IN  IF idx = {} THEN <<>>
      ELSE LET lo == CHOOSE i \in idx : \A j \in idx : i <= j
               hi == CHOOSE i \in idx : \A j \in idx : i >= j
           IN  SubSeq(s, lo, hi)

\* str.split(sep): the pieces between the separators, in order
RECURSIVE Split(_, _)
Split(s, sep) ==
  LET idx == {i \in 1..Len(s) : s[i] = sep}
  IN  IF idx = {} THEN <<s>>
      ELSE LET k == CHOOSE i \in idx : \A j \in idx : i <= j
           IN  <<SubSeq(s, 1, k - 1)>> \o Split(SubSeq(s, k + 1, Len(s)), sep)

\* the elements of a sequence
Range(s) == {s[i] : i \in 1..Len(s)}

\* number of characters of a token
TokLen(t) ==
  CASE t \in {"Project", "Summary"} -> 7
    [] t \in {"Keywords", "Previous"} -> 8
    [] t \in {"Goal", "Next", DASH4} -> 4
    [] t = "Log Entry" -> 9
    [] t = "Attachments" -> 11
    [] t = "never find me" -> 13
    [] t \in {"January 01, 2017", "January 02, 2017", "January 03, 2017",
              "January 04, 2017"} -> 16
    [] t \in {"170101", "170102", "170103", "170104"} -> 6
    [] t = "tomorrow" -> 8
    [] t = "entry" -> 5
    [] t = ".md" -> 3
    [] OTHER -> 1

\* len(str)
RECURSIVE StrLen(_)
StrLen(s) == IF s = <<>> THEN 0 ELSE TokLen(Head(s)) + StrLen(Tail(s))

\* c.rjust(n, c) for a one-character c: max(n, 1) copies of c
Rjust(c, n) ==
  LET m == IF n < 1 THEN 1 ELSE n
  IN  IF c = "-" /\ m >= 4 THEN <<DASH4>> \o [i \in 1..(m - 4) |-> "-"]
      ELSE [i \in 1..m |-> c]

(***************************************************************************)
(* Dates.  date.strftime('%B %d, %Y') and strptime + strftime('%y%m%d')    *)
(* over the days the model uses.                                           *)
(***************************************************************************)
Dates == <<"170101", "170102", "170103", "170104">>
DateStrs == <<"January 01, 2017", "January 02, 2017", "January 03, 2017",
              "January 04, 2017">>

\* int(date[0:2]), int(date[2:4]), int(date[4:]) and datetime.date(y, m, d) succeed
ValidDate(date) == Len(date) = 1 /\ date[1] \in Range(Dates)

\* strftime('%B %d, %Y') of the date YYMMDD
LongDate(date) ==
  <<DateStrs[CHOOSE i \in 1..Len(Dates) : Dates[i] = date[1]]>>

\* strptime(date_str, '%B %d, %Y') succeeds
ValidDateStr(ds) == Len(ds) = 1 /\ ds[1] \in Range(DateStrs)

\* strptime(date_str, '%B %d, %Y').strftime('%y%m%d')
ShortDate(ds) ==
  <<Dates[CHOOSE i \in 1..Len(DateStrs) : DateStrs[i] = ds[1]]>>

(***************************************************************************)
(* entry: the record and its methods                                       *)
(***************************************************************************)
titles == <<"Project", "Keywords", "Goal", "Log Entry",
            "Summary", "Attachments", "Previous", "Next">>

\* the keys of the dict parse_sections returns
Keys == {"DateStr", "Date", "Location"} \cup Range(titles)

\* the attributes entry.__init__ sets before it looks at the disk
BlankEntry(filename, date, location, project, keywords, previous, next) ==
  [filename |-> filename, date |-> date, date_str |-> None,
   location |-> location, project |-> project, keywords |-> keywords,
   goal |-> <<>>, log |-> <<>>, summary |-> <<>>, attachments |-> <<>>,
   previous |-> previous, next |-> next]

\* entry.has_keywords
has_keywords(self, keywords) ==
  LET inpt == Split(keywords, ",")
      mine == Split(self.keywords, ",")
      k_inpt == {Strip(inpt[i]) : i \in 1..Len(inpt)}
      k_self == {Strip(mine[i]) : i \in 1..Len(mine)}
  IN  Cardinality(k_inpt \cap k_self) > 0

\* entry.get_date: the cached long date, else the one computed from date;
\* raises ValueError for a date that is no YYMMDD day
get_date(self) ==
  IF ~self.date_str.none THEN [exc |-> "", date_str |-> self.date_str.val]
  ELSE IF ValidDate(self.date) THEN [exc |-> "", date_str |-> LongDate(self.date)]
  ELSE [exc |-> "ValueError", date_str |-> <<>>]

\* entry.link_next
link_next(self, other) == [self EXCEPT !.next = other.filename]

\* entry.link_prev
link_prev(self, other) == [self EXCEPT !.previous = other.filename]

\* print(s, file=fid)
print(fid, s) == fid \o s \o <<NL>>

\* the loop of to_file over zip(titles, sections)
RECURSIVE WriteSections(_, _, _)
WriteSections(fid, sections, i) ==
  IF i > Len(titles) THEN fid
  ELSE LET t == <<titles[i]>>
           f1 == print(fid, t)
           f2 == print(f1, Rjust("-", StrLen(t)))
           f3 == print(f2, sections[i])
           f4 == print(f3, <<>>)
       IN  WriteSections(f4, sections, i + 1)

\* a variant of to_file with the last two sections in each other's place
to_file_swapped(self) ==
  LET d == get_date(self)
      h1 == print(<<>>, d.date_str)
      h2 == print(h1, Rjust("=", StrLen(d.date_str)))
      h3 == print(h2, self.location)
      h4 == print(h3, <<>>)
      sections == <<self.project, self.keywords, self.goal, self.log,
                    self.summary, self.attachments, self.next, self.previous>>
  IN  IF d.exc # "" THEN [exc |-> d.exc, text |-> <<>>]
      ELSE [exc |-> "", text |-> WriteSections(h4, sections, 1)]

\* what entry.to_file leaves in the file: open(filename, 'w') empties it, and if
\* get_date raises nothing more is written
to_file(self) ==
  LET d == get_date(self)
      h1 == print(<<>>, d.date_str)
      h2 == print(h1, Rjust("=", StrLen(d.date_str)))
      h3 == print(h2, self.location)
      h4 == print(h3, <<>>)
      sections == <<self.project, self.keywords, self.goal, self.log,
                    self.summary, self.attachments, self.previous, self.next>>
  IN  IF d.exc # "" THEN [exc |-> d.exc, text |-> <<>>]
      ELSE [exc |-> "", text |-> WriteSections(h4, sections, 1)]

(***************************************************************************)
(* entry.parse_sections                                                    *)
(***************************************************************************)
\* open(fullpath) reads in text mode with universal newlines: "\r\n" and a
\* lone "\r" both arrive as "\n"
ReadText(f) ==
  LET n == Len(f)
      mapped == [i \in 1..n |->
                   IF f[i] # CR THEN f[i]
                   ELSE IF i < n /\ f[i + 1] = NL THEN "" ELSE NL]
      Kept(t) == t # ""
  IN  SelectSeq(mapped, Kept)

\* the lines a file object yields, each with its "\n" (the last may lack it)
RECURSIVE SplitLines(_)
SplitLines(f) ==
  IF f = <<>> THEN <<>>
  ELSE LET idx == {i \in 1..Len(f) : f[i] = NL}
           k == IF idx = {} THEN Len(f)
                ELSE CHOOSE i \in idx : \A j \in idx : i <= j
       IN  <<SubSeq(f, 1, k)>> \o SplitLines(SubSeq(f, k + 1, Len(f)))

\* fid.readline(): line n of the file, '' past its end
ReadLine(lines, n) == IF n <= Len(lines) THEN lines[n] ELSE <<>>

\* result[key] = value
SetKey(st, key, value) ==
  [st EXCEPT !.has = @ \cup {key}, !.val = [@ EXCEPT ![key] = value]]

\* sec: the titles and 'never find me', reversed; pop() takes from the end
SecStack == <<"never find me">> \o [i \in 1..Len(titles) |-> titles[Len(titles) + 1 - i]]

\* parse_sections up to the loop: the first two lines and the date
ParseHeader(lines) ==
  LET DateStr == Strip(ReadLine(lines, 1))
      blank == [exc |-> "", has |-> {}, val |-> [k \in Keys |-> <<>>],
                this_section |-> "Location",
                next_section |-> SecStack[Len(SecStack)],
                sec |-> SubSeq(SecStack, 1, Len(SecStack) - 1),
                paragraph |-> <<>>]
      r1 == SetKey(blank, "DateStr", DateStr)
  IN  IF ~ValidDateStr(DateStr) THEN [r1 EXCEPT !.exc = "ValueError"]
      ELSE SetKey(r1, "Date", ShortDate(DateStr))

\* a variant of ParseLine that takes a line as a title only when the title is the
\* whole line
ParseLineExact(st, line) ==
  IF Strip(line) = <<st.next_section>> /\ st.sec # <<>>
  THEN LET r1 == SetKey(st, st.this_section, Strip(st.paragraph))
           r2 == [r1 EXCEPT !.paragraph = <<>>,
                            !.this_section = st.next_section,
                            !.next_section = st.sec[Len(st.sec)],
                            !.sec = SubSeq(st.sec, 1, Len(st.sec) - 1)]
       IN  SetKey(r2, r2.this_section, <<>>)
  ELSE IF StartsWith(line, <<DASH4>>)
  THEN SetKey(st, st.this_section, Strip(st.paragraph))
  ELSE SetKey([st EXCEPT !.paragraph = @ \o line], st.this_section,
              Strip(st.paragraph \o line))

\* a variant of ParseLine that takes a line starting with any title as the
\* start of that title's section
ParseLineAnyTitle(st, line) ==
  IF Len(line) > 0 /\ line[1] \in Range(titles)
  THEN LET r1 == SetKey(st, st.this_section, Strip(st.paragraph))
           r2 == [r1 EXCEPT !.paragraph = <<>>, !.this_section = line[1]]
       IN  SetKey(r2, r2.this_section, <<>>)
  ELSE IF StartsWith(line, <<DASH4>>)
  THEN SetKey(st, st.this_section, Strip(st.paragraph))
  ELSE SetKey([st EXCEPT !.paragraph = @ \o line], st.this_section,
              Strip(st.paragraph \o line))

\* one pass of the loop "for line in fid"
ParseLine(st, line) ==
  IF StartsWith(line, <<st.next_section>>)
  THEN LET r1 == SetKey(st, st.this_section, Strip(st.paragraph))
           r2 == [r1 EXCEPT !.paragraph = <<>>,
                            !.this_section = st.next_section]
       IN  IF st.sec = <<>>
           THEN \* sec.pop() on the empty list
                [r2 EXCEPT !.exc = "IndexError"]
           ELSE LET r3 == [r2 EXCEPT !.next_section = st.sec[Len(st.sec)],
                                     !.sec = SubSeq(st.sec, 1, Len(st.sec) - 1)]
                IN  SetKey(r3, r3.this_section, Strip(r3.paragraph))
  ELSE IF StartsWith(line, <<DASH4>>)
  THEN SetKey(st, st.this_section, Strip(st.paragraph))
  ELSE SetKey([st EXCEPT !.paragraph = @ \o line], st.this_section,
              Strip(st.paragraph \o line))

\* the loop from line n on
RECURSIVE ParseLoop(_, _, _)
ParseLoop(st, lines, n) ==
  IF st.exc # "" \/ n > Len(lines) THEN st
  ELSE ParseLoop(ParseLine(st, lines[n]), lines, n + 1)

\* entry.parse_sections on the text of a file
parse_sections(text) ==
  LET lines == SplitLines(ReadText(text))
      st == ParseHeader(lines)
  IN  ParseLoop(st, lines, 3)

(***************************************************************************)
(* entry.__init__                                                          *)
(***************************************************************************)
\* the order in which __init__ reads the dict
ContentKeys == <<"Date", "DateStr", "Location">> \o titles

NoMsg == [kind |-> "", section |-> "", filename |-> <<>>]

\* datetime.date.today().strftime('%y%m%d') on day number today
Today(today) == <<Dates[today]>>

\* entry.__init__, lines 116-132: the attributes taken from the dict contents
\* that parse_sections returned, or sys.exit
FromContents(self, contents) ==
  LET missing == {i \in 1..Len(ContentKeys) : ContentKeys[i] \notin contents.has}
  IN  IF contents.exc # ""
      THEN [exc |-> "SystemExit",
            msg |-> [kind |-> "unknown error parsing", section |-> "",
                     filename |-> self.filename],
            self |-> self]
      ELSE IF missing # {}
      THEN [exc |-> "SystemExit",
            msg |-> [kind |-> "error parsing",
                     section |-> ContentKeys[CHOOSE i \in missing :
                                               \A j \in missing : i <= j],
                     filename |-> self.filename],
            self |-> self]
      ELSE [exc |-> "", msg |-> NoMsg,
            self |-> [filename |-> self.filename,
                      date |-> contents.val["Date"],
                      date_str |-> Some(contents.val["DateStr"]),
                      location |-> contents.val["Location"],
                      project |-> contents.val["Project"],
                      keywords |-> contents.val["Keywords"],
                      goal |-> contents.val["Goal"],
                      log |-> contents.val["Log Entry"],
                      summary |-> contents.val["Summary"],
                      attachments |-> contents.val["Attachments"],
                      previous |-> contents.val["Previous"],
                      next |-> contents.val["Next"]]]

\* entry.__init__, line 115: load the file when it exists
LoadEntry(self, disk) ==
  IF self.filename \notin DOMAIN disk
  THEN [exc |-> "", msg |-> NoMsg, self |-> self]
  ELSE FromContents(self, parse_sections(disk[self.filename]))

\* entry(filename=..., date=..., project=..., keywords=...) on a disk, on day today;
\* filename, date, project and keywords are None or Some(str)
entry(disk, today, filename, date, project, keywords) ==
  LET kw == IF keywords.none THEN <<>> ELSE keywords.val
      d == IF date.none THEN Today(today) ELSE date.val
  IN  IF filename.none /\ project.none
      THEN \* self.date + '_' + None
           [exc |-> "TypeError", msg |-> NoMsg,
            self |-> BlankEntry(<<>>, d, <<>>, <<>>, kw, <<>>, <<>>)]
      ELSE LET fn == IF filename.none THEN d \o <<"_">> \o project.val \o <<".md">>
                     ELSE filename.val
               pr == IF project.none THEN <<"entry">> ELSE project.val
           IN  LoadEntry(BlankEntry(fn, d, <<>>, pr, kw, <<>>, <<>>), disk)

(***************************************************************************)
(* get_entries                                                             *)
(***************************************************************************)
\* the order of the characters the file names of the model are made of:
\* '.' < digits < '_' < lower-case letters
TokRank(t) ==
  CASE t = ".md" -> 0
    [] t \in Range(Dates) -> CHOOSE i \in 1..Len(Dates) : Dates[i] = t
    [] t = "_" -> 10
    [] t = "a" -> 11
    [] t = "b" -> 12
    [] t = "entry" -> 13
    [] t = "tomorrow" -> 14
    [] t = "x" -> 15
    [] OTHER -> 16

\* str < str: no token of a file name is a prefix of another, so the first
\* differing token decides
StrLess(s, t) ==
  LET n == IF Len(s) < Len(t) THEN Len(s) ELSE Len(t)
      diff == {i \in 1..n : s[i] # t[i]}
  IN  IF diff = {} THEN Len(s) < Len(t)
      ELSE LET k == CHOOSE i \in diff : \A j \in diff : i <= j
           IN  TokRank(s[k]) < TokRank(t[k])

\* files.sort() on the names in a set
RECURSIVE SortNames(_)
SortNames(S) ==
  IF S = {} THEN <<>>
  ELSE LET m == CHOOSE f \in S : \A g \in S : g = f \/ StrLess(f, g)
       IN  <<m>> \o SortNames(S \ {m})

\* a variant of LoadAll that leaves out the files it cannot parse
RECURSIVE LoadAllSkipping(_, _, _, _)
LoadAllSkipping(disk, today, files, i) ==
  IF i > Len(files) THEN [exc |-> "", msg |-> NoMsg, entries |-> <<>>]
  ELSE LET c == entry(disk, today, Some(files[i]), None, Some(<<"entry">>), None)
           rest == LoadAllSkipping(disk, today, files, i + 1)
       IN  IF c.exc # "" THEN rest
           ELSE [rest EXCEPT !.entries = <<c.self>> \o @]

\* [entry(filename=f) for f in files]: sys.exit in a constructor ends the
\* comprehension, and the process
RECURSIVE LoadAll(_, _, _, _)
LoadAll(disk, today, files, i) ==
  IF i > Len(files) THEN [exc |-> "", msg |-> NoMsg, entries |-> <<>>]
  ELSE LET c == entry(disk, today, Some(files[i]), None, Some(<<"entry">>), None)
       IN  IF c.exc # "" THEN [exc |-> c.exc, msg |-> c.msg, entries |-> <<>>]
           ELSE LET rest == LoadAll(disk, today, files, i + 1)
                IN  IF rest.exc # "" THEN rest
                    ELSE [rest EXCEPT !.entries = <<c.self>> \o @]

\* get_entries(project, date, keywords), each None or Some(str)
get_entries(disk, today, project, date, keywords) ==
  LET files == SortNames({f \in DOMAIN disk : EndsWith(f, <<".md">>)})
      all == LoadAll(disk, today, files, 1)
      ByProject(e) == project.none \/ e.project = project.val
      ByDate(e) == date.none \/ e.date = date.val
      ByKeywords(e) == keywords.none \/ has_keywords(e, keywords.val)
  IN  IF all.exc # "" THEN all
      ELSE [all EXCEPT !.entries =
              SelectSeq(SelectSeq(SelectSeq(@, ByProject), ByDate), ByKeywords)]

(***************************************************************************)
(* command_new                                                             *)
(***************************************************************************)
\* the file f of the disk replaced by text
WriteFile(disk, f, text) == [g \in DOMAIN disk \cup {f} |-> IF g = f THEN text ELSE disk[g]]

\* command_new, lines 298-302: new_entry.to_file(), then command_open, which
\* finds the file just written and runs the editor; old is the name of the
\* entry linked to, if any
WriteNew(disk, c, new_entry, old) ==
  [disk |-> WriteFile(disk, new_entry.filename, to_file(new_entry).text),
   exc |-> to_file(new_entry).exc, msg |-> NoMsg,
   ctor |-> c.exc, made |-> c.self, new_entry |-> new_entry, old |-> old]

\* command_new, lines 290-296: the two links and old_entry.to_file()
LinkAndWrite(disk, c, old_entry) ==
  IF to_file(old_entry).exc # ""
  THEN [disk |-> WriteFile(disk, old_entry.filename, <<>>),
        exc |-> to_file(old_entry).exc, msg |-> NoMsg,
        ctor |-> c.exc, made |-> c.self,
        new_entry |-> link_prev(c.self, old_entry),
        old |-> Some(old_entry.filename)]
  ELSE WriteNew(WriteFile(disk, old_entry.filename, to_file(old_entry).text),
                c, link_prev(c.self, old_entry), Some(old_entry.filename))

\* command_new after the constructor returned c and, for no -d, get_entries
\* returned g
NewFrom(disk, args, c, g) ==
  IF c.exc # ""
  THEN [disk |-> disk, exc |-> c.exc, msg |-> c.msg, ctor |-> c.exc,
        made |-> c.self, new_entry |-> c.self, old |-> None]
  ELSE IF args.date.none /\ g.exc # ""
  THEN [disk |-> disk, exc |-> g.exc, msg |-> g.msg, ctor |-> c.exc,
        made |-> c.self, new_entry |-> c.self, old |-> None]
  ELSE IF args.date.none /\ Len(g.entries) > 0
  THEN LinkAndWrite(disk, c, link_next(g.entries[Len(g.entries)], c.self))
  ELSE WriteNew(disk, c, c.self, None)

\* command_new(args) on day today: the disk it leaves, how it ended, the entry
\* its constructor made and the entry it linked to
command_new(disk, today, args) ==
  NewFrom(disk, args,
          entry(disk, today, None, args.date, args.project, args.keywords),
          get_entries(disk, today, args.project, None, None))

(***************************************************************************)
(* State.  Each specification below drives one part of the program and     *)
(* leaves the variables of the others at rest.                             *)
(***************************************************************************)
VARIABLES
  rt_pc, r, text, parsed,             \* to_file, then the constructor on the file
  p_pc, lines, pos, st,               \* parse_sections, line by line
  k_pc, k_self, k_query, k_out,       \* has_keywords
  l_pc, l_disk, l_cut, l_args, l_out, \* get_entries over a directory
  disk, today, hist, ncmd,            \* the entry directory, the day, command_new runs
  pc, proj, new_entry, old_entry, lastw  \* two concurrent command_new processes

rtVars == <<rt_pc, r, text, parsed>>
pVars == <<p_pc, lines, pos, st>>
kVars == <<k_pc, k_self, k_query, k_out>>
lVars == <<l_pc, l_disk, l_cut, l_args, l_out>>
nVars == <<disk, today, hist, ncmd>>
cVars == <<pc, proj, new_entry, old_entry, lastw>>
vars == <<rtVars, pVars, kVars, lVars, nVars, cVars>>

\* bounds of the model
MaxLen == 3
MaxBody == 3
MaxKw == 3
MaxCmds == 3
MaxDay == 3

EmptyDisk == [f \in {} |-> <<>>]
NoEntry == BlankEntry(<<>>, <<>>, <<>>, <<>>, <<>>, <<>>, <<>>)
NoResult == [exc |-> "", msg |-> NoMsg, self |-> NoEntry]
NoListing == [exc |-> "", msg |-> NoMsg, entries |-> <<>>]
NoState == [exc |-> "", has |-> {}, val |-> [k \in Keys |-> <<>>],
            this_section |-> "", next_section |-> "", sec |-> <<>>,
            paragraph |-> <<>>]

rtIdle == rt_pc = "" /\ r = NoEntry /\ text = <<>> /\ parsed = NoResult
pIdle == p_pc = "" /\ lines = <<>> /\ pos = 0 /\ st = NoState
kIdle == k_pc = "" /\ k_self = <<>> /\ k_query = <<>> /\ k_out = FALSE
lIdle == l_pc = "" /\ l_disk = EmptyDisk /\ l_cut = EmptyDisk
         /\ l_args = [project |-> None, date |-> None, keywords |-> None]
         /\ l_out = NoListing
nIdle == disk = EmptyDisk /\ today = 1 /\ hist = <<>> /\ ncmd = 0
cIdle == pc = <<>> /\ proj = <<>> /\ new_entry = <<>> /\ old_entry = <<>>
         /\ lastw = EmptyDisk

(***************************************************************************)
(* to_file, then the constructor on the file written                       *)
(***************************************************************************)
\* the attributes that are sections of the file, in file order
Fields == <<"location", "project", "keywords", "goal", "log",
            "summary", "attachments", "previous", "next">>

\* the title parse_sections waits for while it reads the section of a field
NextTitle(f) ==
  LET i == CHOOSE j \in 1..Len(Fields) : Fields[j] = f
  IN  IF i <= Len(titles) THEN titles[i] ELSE "never find me"

\* the title after that one (the first title again for the last sections)
AfterNextTitle(f) ==
  LET i == CHOOSE j \in 1..Len(Fields) : Fields[j] = f
  IN  IF i + 1 <= Len(titles) THEN titles[i + 1]
      ELSE IF i + 1 = Len(titles) + 1 THEN "never find me" ELSE titles[1]

\* an entry in memory whose sections all hold fill
Filled(fill) ==
  [BlankEntry(<<"170101", "_", "a", ".md">>, <<"170101">>, fill, fill, fill,
              fill, fill)
     EXCEPT !.goal = fill, !.log = fill, !.summary = fill, !.attachments = fill]

\* the tokens the text of a section is made of when it is under test
Alphabet(f) == {"x", SP, NL, CR, DASH4, NextTitle(f), AfterNextTitle(f)}

\* the entries the round trip is tried on: one section holds any text of at most
\* MaxLen tokens, the others are all empty or all "x"
RtInit ==
  /\ rt_pc = "made" /\ text = <<>> /\ parsed = NoResult
  /\ \E i \in 1..Len(Fields), k \in 0..MaxLen, fill \in {<<>>, <<"x">>} :
       \E t \in [1..k -> Alphabet(Fields[i])] :
         r = [Filled(fill) EXCEPT ![Fields[i]] = t]
  /\ pIdle /\ kIdle /\ lIdle /\ nIdle /\ cIdle

\* r.to_file()
RtToFile ==
  /\ rt_pc = "made"
  /\ text' = to_file(r).text
  /\ rt_pc' = "written"
  /\ UNCHANGED <<r, parsed, pVars, kVars, lVars, nVars, cVars>>

\* entry(filename=r.filename) on the file just written
RtLoad ==
  /\ rt_pc = "written"
  /\ parsed' = entry(WriteFile(EmptyDisk, r.filename, text), 1, Some(r.filename),
                     None, Some(<<"entry">>), None)
  /\ rt_pc' = "loaded"
  /\ UNCHANGED <<r, text, pVars, kVars, lVars, nVars, cVars>>

RtNext == RtToFile \/ RtLoad
SpecRT == RtInit /\ [][RtNext]_vars

(***************************************************************************)
(* parse_sections, one line of the file at a time                          *)
(***************************************************************************)
\* the files parsed are an entry written by to_file in which one section holds
\* any text of at most MaxBody tokens, followed by nothing or by further lines
ParseTails ==
  {<<>>, <<"Next", NL, DASH4, NL, "x", NL, "never find me", SP, "x", NL>>}

\* the tokens of the section under test
BodyAlphabet(f) == {"x", NL, DASH4, NextTitle(f), AfterNextTitle(f)}

PInit ==
  /\ p_pc = "open" /\ pos = 1 /\ st = NoState
  /\ \E i \in 1..Len(Fields), k \in 0..MaxBody, tail \in ParseTails :
       \E t \in [1..k -> BodyAlphabet(Fields[i])] :
         lines = SplitLines(ReadText(
                   to_file([Filled(<<"x">>) EXCEPT ![Fields[i]] = t]).text \o tail))
  /\ rtIdle /\ kIdle /\ lIdle /\ nIdle /\ cIdle

\* lines 245-261: the two header lines and the date
POpen ==
  /\ p_pc = "open"
  /\ st' = ParseHeader(lines)
  /\ pos' = 3
  /\ p_pc' = IF st'.exc # "" THEN "raised" ELSE "loop"
  /\ UNCHANGED <<lines, rtVars, kVars, lVars, nVars, cVars>>

\* lines 263-275: one pass of the loop
PLine ==
  /\ p_pc = "loop" /\ pos <= Len(lines)
  /\ st' = ParseLine(st, lines[pos])
  /\ pos' = pos + 1
  /\ p_pc' = IF st'.exc # "" THEN "raised" ELSE "loop"
  /\ UNCHANGED <<lines, rtVars, kVars, lVars, nVars, cVars>>

\* line 277: return result
PReturn ==
  /\ p_pc = "loop" /\ pos > Len(lines)
  /\ p_pc' = "returned"
  /\ UNCHANGED <<lines, pos, st, rtVars, kVars, lVars, nVars, cVars>>

PNext == POpen \/ PLine \/ PReturn
SpecParse == PInit /\ [][PNext]_vars

(***************************************************************************)
(* has_keywords                                                            *)
(***************************************************************************)
KwAlphabet == {"a", "b", ",", SP}

KInit ==
  /\ k_pc = "call" /\ k_out = FALSE
  /\ \E m \in 0..MaxKw, n \in 0..MaxKw :
       /\ k_self \in [1..m -> KwAlphabet]
       /\ k_query \in [1..n -> KwAlphabet]
  /\ rtIdle /\ pIdle /\ lIdle /\ nIdle /\ cIdle

\* e.has_keywords(k_query) on an entry e whose keywords are k_self
KCall ==
  /\ k_pc = "call"
  /\ k_out' = has_keywords([NoEntry EXCEPT !.keywords = k_self], k_query)
  /\ k_pc' = "done"
  /\ UNCHANGED <<k_self, k_query, rtVars, pVars, lVars, nVars, cVars>>

KNext == KCall
SpecKw == KInit /\ [][KNext]_vars

(***************************************************************************)
(* get_entries over a directory whose entry files may be cut short          *)
(***************************************************************************)
ListFiles == {<<"170101", "_", "a", ".md">>, <<"170102", "_", "b", ".md">>}

\* the entry a complete file of the directory holds
ListEntry(f) ==
  [Filled(<<"x">>) EXCEPT !.filename = f, !.date = <<f[1]>>, !.project = <<f[3]>>]

\* the lines to_file writes for the entry of each file
FullLines == [f \in ListFiles |-> SplitLines(to_file(ListEntry(f)).text)]

\* the first n of those lines, as a text
FirstLines(f, n) ==
  LET Cat[i \in 0..n] == IF i = 0 THEN <<>> ELSE Cat[i - 1] \o FullLines[f][i]
  IN  Cat[n]

\* the directory: each entry file was written by to_file and then cut after some
\* number of its lines (all of them: not cut); x.txt is no entry file
LInit ==
  /\ l_pc = "call" /\ l_out = NoListing
  /\ l_cut \in UNION {[ListFiles -> 0..Len(FullLines[f])] : f \in ListFiles}
  /\ \A f \in ListFiles : l_cut[f] <= Len(FullLines[f])
  /\ l_disk = [f \in ListFiles \cup {<<"x", ".txt">>} |->
                 IF f \in ListFiles THEN FirstLines(f, l_cut[f]) ELSE <<"x", NL>>]
  /\ l_args \in [project : {None, Some(<<"a">>)}, date : {None},
                 keywords : {None, Some(<<"x", ",", "a">>)}]
  /\ rtIdle /\ pIdle /\ kIdle /\ nIdle /\ cIdle

\* get_entries(project, date, keywords), as command_list and the others call it
LList ==
  /\ l_pc = "call"
  /\ l_out' = get_entries(l_disk, 1, l_args.project, l_args.date, l_args.keywords)
  /\ l_pc' = "done"
  /\ UNCHANGED <<l_disk, l_cut, l_args, rtVars, pVars, kVars, nVars, cVars>>

LNext == LList
SpecList == LInit /\ [][LNext]_vars

(***************************************************************************)
(* command_new, run after run on one entry directory                       *)
(***************************************************************************)
\* the command lines tried: -p absent, a or b; -d absent, a day later than any
\* the model reaches, or a word that is no date; -k absent or x
NewArgs ==
  [project : {None, Some(<<"a">>), Some(<<"b">>)},
   date : {None, Some(<<Dates[Len(Dates)]>>), Some(<<"tomorrow">>)},
   keywords : {None, Some(<<"x">>)}]

\* the last three runs
Recent(h) == IF Len(h) > 3 THEN SubSeq(h, Len(h) - 2, Len(h)) ELSE h

\* no entry of the project is in the directory (every entry, for no -p)
Fresh(d, day, project) ==
  LET g == get_entries(d, day, project, None, None)
  IN  g.exc = "" /\ g.entries = <<>>

NInit == /\ disk = EmptyDisk /\ today = 1 /\ hist = <<>> /\ ncmd = 0
         /\ rtIdle /\ pIdle /\ kIdle /\ lIdle /\ cIdle

\* one run of "lab new" with the arguments a; hist records the run: its
\* arguments, the day, how the constructor and the command ended, the entry the
\* constructor made, the name of the new entry's file, whether that file was
\* there before and whether the project had no entry before
New(a) ==
  /\ ncmd < MaxCmds
  /\ LET res == command_new(disk, today, a)
     IN  /\ disk' = res.disk
         /\ hist' = Recent(Append(hist,
                      [args |-> a, today |-> today, exc |-> res.exc,
                       ctor |-> res.ctor,
                       made |-> [f \in {"filename", "date", "project", "keywords"}
                                   |-> res.made[f]],
                       file |-> res.new_entry.filename,
                       existed |-> res.made.filename \in DOMAIN disk,
                       fresh |-> Fresh(disk, today, a.project)]))
  /\ ncmd' = ncmd + 1
  /\ UNCHANGED <<today, rtVars, pVars, kVars, lVars, cVars>>

\* midnight passes
Tick ==
  /\ today < MaxDay
  /\ today' = today + 1
  /\ UNCHANGED <<disk, hist, ncmd, rtVars, pVars, kVars, lVars, cVars>>

NNext == (\E a \in NewArgs : New(a)) \/ Tick
SpecNew == NInit /\ [][NNext]_vars

(***************************************************************************)
(* Two "lab new" processes on one entry directory.  Nothing locks the      *)
(* directory, so the steps of the two interleave freely.  to_file is two   *)
(* steps: open(filename, 'w') empties the file, and the text, which print  *)
(* leaves in the file object's buffer, reaches the file at fid.close().    *)
(***************************************************************************)
Procs == {1, 2}

\* the directory after "lab new -p a" on the first day
OneEntryDisk ==
  command_new(EmptyDisk, 1,
              [project |-> Some(<<"a">>), date |-> None, keywords |-> None]).disk

CInit ==
  /\ disk = OneEntryDisk /\ today = 2 /\ hist = <<>> /\ ncmd = 0
  /\ pc = [p \in Procs |-> "construct"]
  /\ proj \in [Procs -> {<<"a">>, <<"b">>}]
  /\ new_entry = [p \in Procs |-> NoEntry]
  /\ old_entry = [p \in Procs |-> [none |-> TRUE, e |-> NoEntry]]
  /\ lastw = EmptyDisk
  /\ rtIdle /\ pIdle /\ kIdle /\ lIdle

\* lines 282-284: new_entry = entry(date=None, project=..., keywords=None)
CConstruct(p) ==
  /\ pc[p] = "construct"
  /\ LET c == entry(disk, today, None, None, Some(proj[p]), None)
     IN  IF c.exc # ""
         THEN pc' = [pc EXCEPT ![p] = "exit"] /\ UNCHANGED new_entry
         ELSE /\ new_entry' = [new_entry EXCEPT ![p] = c.self]
              /\ pc' = [pc EXCEPT ![p] = "list"]
  /\ UNCHANGED <<disk, today, hist, ncmd, proj, old_entry, lastw,
                 rtVars, pVars, kVars, lVars>>

\* lines 288-293: get_entries, and the two links when the project has an entry
CList(p) ==
  /\ pc[p] = "list"
  /\ LET g == get_entries(disk, today, Some(proj[p]), None, None)
     IN  IF g.exc # ""
         THEN pc' = [pc EXCEPT ![p] = "exit"] /\ UNCHANGED <<new_entry, old_entry>>
         ELSE IF Len(g.entries) > 0
         THEN LET old == link_next(g.entries[Len(g.entries)], new_entry[p])
              IN  /\ old_entry' = [old_entry EXCEPT ![p] = [none |-> FALSE, e |-> old]]
                  /\ new_entry' = [new_entry EXCEPT ![p] = link_prev(@, old)]
                  /\ pc' = [pc EXCEPT ![p] = "open_old"]
         ELSE /\ pc' = [pc EXCEPT ![p] = "open_new"]
              /\ UNCHANGED <<new_entry, old_entry>>
  /\ UNCHANGED <<disk, today, hist, ncmd, proj, lastw, rtVars, pVars, kVars, lVars>>

\* line 296, old_entry.to_file(): fid = open(filename, 'w')
COpenOld(p) ==
  /\ pc[p] = "open_old"
  /\ disk' = WriteFile(disk, old_entry[p].e.filename, <<>>)
  /\ pc' = [pc EXCEPT ![p] = "close_old"]
  /\ UNCHANGED <<today, hist, ncmd, proj, new_entry, old_entry, lastw,
                 rtVars, pVars, kVars, lVars>>

\* line 296, old_entry.to_file(): the prints, and fid.close()
CCloseOld(p) ==
  /\ pc[p] = "close_old"
  /\ disk' = WriteFile(disk, old_entry[p].e.filename, to_file(old_entry[p].e).text)
  /\ lastw' = WriteFile(lastw, old_entry[p].e.filename, p)
  /\ pc' = [pc EXCEPT ![p] = "open_new"]
  /\ UNCHANGED <<today, hist, ncmd, proj, new_entry, old_entry,
                 rtVars, pVars, kVars, lVars>>

\* line 298, new_entry.to_file(): fid = open(filename, 'w')
COpenNew(p) ==
  /\ pc[p] = "open_new"
  /\ disk' = WriteFile(disk, new_entry[p].filename, <<>>)
  /\ pc' = [pc EXCEPT ![p] = IF to_file(new_entry[p]).exc # "" THEN "exit"
                             ELSE "close_new"]
  /\ UNCHANGED <<today, hist, ncmd, proj, new_entry, old_entry, lastw,
                 rtVars, pVars, kVars, lVars>>

\* line 298, new_entry.to_file(): the prints, and fid.close(); then command_open
\* finds the file and runs the editor
CCloseNew(p) ==
  /\ pc[p] = "close_new"
  /\ disk' = WriteFile(disk, new_entry[p].filename, to_file(new_entry[p]).text)
  /\ lastw' = WriteFile(lastw, new_entry[p].filename, p)
  /\ pc' = [pc EXCEPT ![p] = "done"]
  /\ UNCHANGED <<today, hist, ncmd, proj, new_entry, old_entry,
                 rtVars, pVars, kVars, lVars>>

\* midnight passes
CTick ==
  /\ today < MaxDay
  /\ today' = today + 1
  /\ UNCHANGED <<disk, hist, ncmd, cVars, rtVars, pVars, kVars, lVars>>

CNext ==
  \/ \E p \in Procs :
       \/ CConstruct(p) \/ CList(p) \/ COpenOld(p) \/ CCloseOld(p)
       \/ COpenNew(p) \/ CCloseNew(p)
  \/ CTick
SpecRace == CInit /\ [][CNext]_vars

(***************************************************************************)
(* Properties of the codec: to_file and parse_sections                     *)
(***************************************************************************)
\* the attributes the round trip compares
Compared == Range(Fields) \cup {"date"}

RoundTrips ==
  parsed.exc = "" /\ \A f \in Compared : parsed.self[f] = r[f]

\* C1 as stated: for any entry with non-empty fields, to_file followed by
\* parse_sections gives back every field, whatever the text of the fields
C1_RoundTripAnyText ==
  (rt_pc = "loaded" /\ \A i \in 1..Len(Fields) : r[Fields[i]] # <<>>)
    => RoundTrips

\* a section text that survives the round trip: no white space at either end,
\* no carriage return, and no line that starts with four dashes or with the
\* title (or, in Next, the sentinel) the parser waits for in that section
CleanText(f, v) ==
  /\ Strip(v) = v
  /\ CR \notin Range(v)
  /\ \A line \in Range(SplitLines(v)) :
       /\ ~StartsWith(line, <<DASH4>>)
       /\ ~StartsWith(line, <<NextTitle(f)>>)

CleanEntry(e) ==
  ValidDate(e.date) /\ \A i \in 1..Len(Fields) : CleanText(Fields[i], e[Fields[i]])

\* C1, amended: for any entry whose date is a day YYMMDD and whose sections are
\* all clean texts (empty ones included), to_file followed by parse_sections
\* gives back every field, multi-line section bodies included
C1_RoundTripClean ==
  (rt_pc = "loaded" /\ CleanEntry(r)) => RoundTrips

\* C1's case: a clean entry with a multi-line Log Entry went through the round trip
C1_Witness ==
  /\ rt_pc = "loaded" /\ CleanEntry(r)
  /\ NL \in Range(r.log) /\ r.goal # <<>>
  /\ parsed.self.log = r.log

\* the fixed order of the sections of a file
SectionOrder == <<"Location">> \o titles

\* the section that follows section s in the fixed order
ExpectedNext(s) ==
  SectionOrder[(CHOOSE i \in 1..Len(SectionOrder) : SectionOrder[i] = s) + 1]

\* the loop of parse_sections takes the line at pos
LineStep == p_pc = "loop" /\ pos' = pos + 1

\* C8: while section S (any but the last) is parsed, a line that starts with the
\* title of the section after S ends S there: S gets the text gathered so far,
\* trimmed; the line goes to no section; the parser is in the next section with
\* an empty paragraph, so what follows is gathered there
C8_PrefixBoundary ==
  [][(/\ LineStep
      /\ st.this_section \in Range(SectionOrder) \ {"Next"}
      /\ StartsWith(lines[pos], <<ExpectedNext(st.this_section)>>))
     => (/\ p_pc' = "loop"
         /\ st'.this_section = ExpectedNext(st.this_section)
         /\ st.this_section \in st'.has
         /\ st'.val[st.this_section] = Strip(st.paragraph)
         /\ st'.paragraph = <<>>
         /\ st'.val[st'.this_section] = <<>>
         /\ \A k \in Keys \ {st.this_section, st'.this_section} :
              st'.val[k] = st.val[k])]_vars

\* C8's case: a line "Summary" inside the Log Entry body (a blank line follows it,
\* not an underline) ended Log Entry with the text before it
C8_Witness ==
  /\ p_pc = "loop" /\ pos > 3 /\ pos <= Len(lines)
  /\ st.this_section = "Summary" /\ st.paragraph = <<>>
  /\ st.val["Log Entry"] = <<"x">>
  /\ lines[pos - 1] = <<"Summary", NL>> /\ lines[pos] = <<NL>>

\* the line starts with a section title that is not the one expected next
OutOfOrderTitle(line, this) ==
  \E i \in 1..Len(titles) :
    /\ StartsWith(line, <<titles[i]>>)
    /\ (this = "Next" \/ titles[i] # ExpectedNext(this))

\* C9 as stated: a line that starts with a title out of the fixed order still
\* starts a new section
C9_OutOfOrderBoundary ==
  [][(LineStep /\ OutOfOrderTitle(lines[pos], st.this_section))
     => (st'.this_section # st.this_section /\ st'.paragraph = <<>>)]_vars

\* C9, amended: a line that starts with a title other than the one expected next
\* is no boundary: it is added to the paragraph of the current section
C9_OutOfOrderAccumulated ==
  [][(LineStep /\ OutOfOrderTitle(lines[pos], st.this_section))
     => (/\ p_pc' = "loop"
         /\ st'.this_section = st.this_section
         /\ st'.next_section = st.next_section
         /\ st'.paragraph = st.paragraph \o lines[pos]
         /\ st'.val[st.this_section] = Strip(st'.paragraph))]_vars

\* C9's case: the parser is in Goal and has gathered a line that starts with
\* the title Summary
C9_Witness ==
  /\ p_pc = "loop" /\ st.this_section = "Goal"
  /\ "Summary" \in Range(st.paragraph)
  /\ st.val["Goal"] # <<>>

\* C10: once the parser is in Next, every further line that does not start with
\* four dashes is added to the Next paragraph; none ends Next or fails the parse
C10_NoEndSentinel ==
  [][(/\ LineStep /\ st.this_section = "Next"
      /\ ~StartsWith(lines[pos], <<DASH4>>))
     => (/\ p_pc' = "loop"
         /\ st'.this_section = "Next"
         /\ st'.paragraph = st.paragraph \o lines[pos])]_vars

(***************************************************************************)
(* Properties of a listing over files cut short                            *)
(***************************************************************************)
\* the line of a complete file that holds the title of section s
TitleLine(f, s) ==
  CHOOSE k \in 1..Len(FullLines[f]) : FullLines[f][k] = <<s, NL>>

\* the first section, in the fixed order, that a file cut after n lines lacks:
\* Location needs a third line, every other section its title line
FirstMissing(f, n) ==
  IF n < 3 THEN "Location"
  ELSE LET miss == {i \in 1..Len(titles) : TitleLine(f, titles[i]) > n}
       IN  titles[CHOOSE i \in miss : \A j \in miss : i <= j]

\* file f lacks a section
CutShort(f) == l_cut[f] < TitleLine(f, "Next")

\* the listing ended in the fatal error that names file f and its first missing
\* section, and returned nothing
FailsNaming(f) ==
  /\ l_out.exc = "SystemExit"
  /\ l_out.msg = [kind |-> "error parsing",
                  section |-> FirstMissing(f, l_cut[f]), filename |-> f]
  /\ l_out.entries = <<>>

\* f is the first file of the listing that lacks a section
FirstCutShort(f) ==
  CutShort(f) /\ \A g \in ListFiles : StrLess(g, f) => ~CutShort(g)

KwTokens(s) == LET ps == Split(s, ",") IN {Strip(ps[i]) : i \in 1..Len(ps)}

\* C4: has_keywords is true exactly when the token sets of the query and of the
\* entry's keywords meet; on keywords "" it is false for every non-empty query
C4_KeywordIntersection ==
  k_pc = "done" =>
    /\ k_out = (KwTokens(k_query) \cap KwTokens(k_self) # {})
    /\ (k_self = <<>> /\ k_query # <<>>) => (k_out = FALSE)

(***************************************************************************)
(* Properties of command_new                                               *)
(***************************************************************************)
\* the entry a file of the directory holds, as get_entries loads it
Loaded(f) == entry(disk, today, Some(f), None, Some(<<"entry">>), None)

\* the files of the directory that hold an entry
EntryFiles == {f \in DOMAIN disk : EndsWith(f, <<".md">>) /\ Loaded(f).exc = ""}

\* C2: after any sequence of new commands the previous/next fields on disk form a
\* consistent doubly-linked chain: A.next = B.filename iff B.previous = A.filename
C2_ChainConsistent ==
  \A A \in EntryFiles, B \in EntryFiles :
    (Loaded(A).self.next = B) <=> (Loaded(B).self.previous = A)

\* two runs in a row, both without -d, for the same project, on the same day,
\* both ending normally
SameDayPair(h1, h2) ==
  /\ h1.exc = "" /\ h2.exc = ""
  /\ h1.args.date.none /\ h2.args.date.none
  /\ ~h1.args.project.none /\ h1.args.project = h2.args.project
  /\ h1.today = h2.today

\* both entries are on disk, the first one's next names the second and the
\* second one's previous names the first
Chained(h1, h2) ==
  /\ h1.file \in EntryFiles /\ h2.file \in EntryFiles
  /\ Loaded(h1.file).self.next = h2.file
  /\ Loaded(h2.file).self.previous = h1.file

\* C3: two same-day, same-project runs of new in a row leave entry #1's next equal
\* to entry #2's file name and entry #2's previous equal to entry #1's, both on
\* disk; a third entry, made in a project that had no entry, has empty previous
C3_Chaining ==
  LET n == Len(hist)
  IN  /\ (n >= 2 /\ SameDayPair(hist[n - 1], hist[n]))
           => Chained(hist[n - 1], hist[n])
      /\ (/\ n >= 3 /\ SameDayPair(hist[n - 2], hist[n - 1])
          /\ hist[n].exc = "" /\ hist[n].args.date.none
          /\ hist[n].args.project # hist[n - 1].args.project
          /\ hist[n].fresh)
           => (/\ Chained(hist[n - 2], hist[n - 1])
               /\ hist[n].file \in EntryFiles
               /\ Loaded(hist[n].file).self.previous = <<>>)

\* C5: the constructor, called with project None and no filename, succeeds with
\* project "entry" and filename <date>_entry.md; with date None the date is
\* today's, with keywords None the keywords are "" (for an entry not yet on disk)
C5_ConstructorDefaults ==
  \A i \in 1..Len(hist) :
    LET h == hist[i]
    IN  /\ h.args.project.none
             => (/\ h.ctor = ""
                 /\ h.made.project = <<"entry">>
                 /\ h.made.filename = h.made.date \o <<"_", "entry", ".md">>)
        /\ (h.ctor = "" /\ ~h.existed /\ h.args.date.none)
             => h.made.date = Today(h.today)
        /\ (h.ctor = "" /\ ~h.existed /\ h.args.keywords.none)
             => h.made.keywords = <<>>

(***************************************************************************)
(* Properties of two concurrent runs of command_new                        *)
(***************************************************************************)
\* both runs are over, and both took file F as the last entry of the project,
\* linked against it and wrote it back
BothLinked(F) ==
  \A p \in Procs :
    pc[p] = "done" /\ ~old_entry[p].none /\ old_entry[p].e.filename = F

\* C7: when two runs of new for one project both take the same last entry as
\* predecessor and each writes the predecessor's file back, the next field the
\* file ends with is the one written by the run that wrote it second
C7_SecondWriteWins ==
  \A F \in DOMAIN disk :
    BothLinked(F) =>
      /\ Loaded(F).exc = ""
      /\ Loaded(F).self.next = new_entry[lastw[F]].filename

\* C7's case: the two runs, started on different days, linked the same
\* predecessor; its next names the second writer's entry, and the first writer's
\* entry names a predecessor that does not point back at it
C7_Witness ==
  \E F \in DOMAIN disk, p \in Procs, q \in Procs :
    /\ BothLinked(F) /\ p # q /\ lastw[F] = q
    /\ new_entry[p].filename # new_entry[q].filename
    /\ Loaded(F).self.next = new_entry[q].filename
    /\ Loaded(new_entry[p].filename).exc = ""
    /\ Loaded(new_entry[p].filename).self.previous = F

====
